---- MODULE Spec2Model ----
(***************************************************************************)
(* Model of the LMI feasibility service: the HTTP boundary                 *)
(* solve_lmi_endpoint (backend/main.py) and the routine solve_lmi          *)
(* (backend/lmi_solver.py).                                                *)
(*                                                                         *)
(* Numbers live on the integer grid.  A matrix is a tuple of rows, the     *)
(* absent value (Python None) is the empty tuple <<>>, an optional scalar  *)
(* is <<>> or <<x>>.  Extreme eigenvalues of symmetric integer matrices    *)
(* are kept as their floor (minimum) and ceiling (maximum); compared with  *)
(* integers these decide exactly as the real values do, and the code's     *)
(* tolerance 1e-6 is below the resolution of the grid (a nonzero           *)
(* eigenvalue of one of the small integer matrices used here has modulus   *)
(* far above 1e-6), so "x >= y - tol" is "x >= y" and "x <= y + tol" is    *)
(* "x <= y".                                                               *)
(***************************************************************************)
EXTENDS Integers, Sequences, FiniteSets, TLC

\* ------------------------------------------------------------------------
\* Bounds of the model
\* ------------------------------------------------------------------------
MaxLambda == 1

MaxRho == 1

\* ------------------------------------------------------------------------
\* numpy: shapes and matrix arithmetic
\* ------------------------------------------------------------------------
None == <<>>

Some(x) == <<x>>

\* the value np.sqrt gives for a negative entry (with a RuntimeWarning)
NaN == -1000000

\* ndarray.shape of a 2-D array
Shape(X) == <<Len(X), Len(X[1])>>

\* every row has the same length: np.array builds a 2-D array
IsRect(rows) == Len(rows) > 0 /\ \A i \in 1..Len(rows) : Len(rows[i]) = Len(rows[1]) /\ Len(rows[i]) > 0

Transpose(X) == [j \in 1..Len(X[1]) |-> [i \in 1..Len(X) |-> X[i][j]]]

RECURSIVE SumTo(_, _)
SumTo(f, k) == IF k = 0 THEN 0 ELSE f[k] + SumTo(f, k - 1)

\* X @ Y for 2-D arrays of matching inner dimension
MatMul(X, Y) ==
    [i \in 1..Len(X) |-> [j \in 1..Len(Y[1]) |->
        SumTo([k \in 1..Len(Y) |-> X[i][k] * Y[k][j]], Len(Y))]]

Scale(c, X) == [i \in 1..Len(X) |-> [j \in 1..Len(X[1]) |-> c * X[i][j]]]

Neg(X) == Scale(-1, X)

\* an array of shape (1, 1) is stretched over the other operand
IsScalarLike(s) == s = <<1, 1>>

Stretch(X, s) == IF Shape(X) = s THEN X ELSE [i \in 1..s[1] |-> [j \in 1..s[2] |-> X[1][1]]]

\* X + Y with numpy broadcasting of a (1, 1) operand
Add(X, Y) ==
    LET s == IF IsScalarLike(Shape(X)) THEN Shape(Y) ELSE Shape(X)
        XX == Stretch(X, s)
        YY == Stretch(Y, s)
    IN  [i \in 1..s[1] |-> [j \in 1..s[2] |-> XX[i][j] + YY[i][j]]]

Sub(X, Y) == Add(X, Neg(Y))

\* np.eye(n)
Eye(n) == [i \in 1..n |-> [j \in 1..n |-> IF i = j THEN 1 ELSE 0]]

\* np.diag of a 1-D sequence
DiagMatrix(v) == [i \in 1..Len(v) |-> [j \in 1..Len(v) |-> IF i = j THEN v[i] ELSE 0]]

Min2(a, b) == IF a <= b THEN a ELSE b

\* np.diag of a 2-D array: its main diagonal
DiagOf(X) == [i \in 1..Min2(Len(X), Len(X[1])) |-> X[i][i]]

\* np.block([[P, Q], [R, S]])
Block(P, Q, R, S) ==
    [i \in 1..(Len(P) + Len(R)) |->
        IF i <= Len(P) THEN P[i] \o Q[i] ELSE R[i - Len(P)] \o S[i - Len(P)]]

\* ------------------------------------------------------------------------
\* numpy.linalg: determinant, definiteness, extreme eigenvalues, inverse
\* ------------------------------------------------------------------------
DropAt(s, k) == [i \in 1..(Len(s) - 1) |-> IF i < k THEN s[i] ELSE s[i + 1]]

Minor(X, k) == [i \in 1..(Len(X) - 1) |-> DropAt(X[i + 1], k)]

RECURSIVE Det(_)
RECURSIVE DetRow(_, _)
DetRow(X, k) ==
    IF k = 0 THEN 0
    ELSE (IF X[1][k] = 0 THEN 0
          ELSE (IF k % 2 = 1 THEN 1 ELSE -1) * X[1][k] * Det(Minor(X, k)))
         + DetRow(X, k - 1)

Det(X) == IF Len(X) = 1 THEN X[1][1] ELSE DetRow(X, Len(X))

\* the principal submatrix on the index sequence idx
SubMatrix(X, idx) == [i \in 1..Len(idx) |-> [j \in 1..Len(idx) |-> X[idx[i]][idx[j]]]]

RECURSIVE SeqOfSet(_)
SeqOfSet(S) == IF S = {} THEN <<>> ELSE LET m == CHOOSE x \in S : \A y \in S : x <= y
                                          IN  <<m>> \o SeqOfSet(S \ {m})

\* a symmetric matrix is positive semidefinite iff no principal minor is negative
IsPSD(X) ==
    /\ \A i \in 1..Len(X) : X[i][i] >= 0
    /\ \A S \in SUBSET (1..Len(X)) : Cardinality(S) >= 2 => Det(SubMatrix(X, SeqOfSet(S))) >= 0

Shift(X, t) == [i \in 1..Len(X) |-> [j \in 1..Len(X) |-> IF i = j THEN X[i][j] - t ELSE X[i][j]]]

RECURSIVE MinOf(_, _)
MinOf(v, k) == IF k = 1 THEN v[1] ELSE Min2(v[k], MinOf(v, k - 1))

\* floor of the smallest eigenvalue of a symmetric matrix: the largest t with
\* X - t*I positive semidefinite, searched downwards from the smallest
\* diagonal entry (which bounds the smallest eigenvalue from above)
RECURSIVE MinEigFrom(_, _)
MinEigFrom(X, t) == IF IsPSD(Shift(X, t)) THEN t ELSE MinEigFrom(X, t - 1)

MinEig(X) == MinEigFrom(X, MinOf(DiagOf(X), Len(X)))

\* ceiling of the largest eigenvalue
MaxEig(X) == -MinEig(Neg(X))

\* the adjugate, so that inv(X) = Adj(X) / Det(X)
Cofactor(X, i, j) ==
    IF Len(X) = 1 THEN 1
    ELSE (IF (i + j) % 2 = 0 THEN 1 ELSE -1)
         * Det([r \in 1..(Len(X) - 1) |-> DropAt(X[IF r < i THEN r ELSE r + 1], j)])

Adj(X) == [i \in 1..Len(X) |-> [j \in 1..Len(X) |-> Cofactor(X, j, i)]]

\* np.linalg.inv raises LinAlgError("Singular matrix") on an exactly singular matrix
IsSingular(X) == Det(X) = 0

\* np.linalg.inv(X) as the rational matrix num / den
Inv(X) == [num |-> Adj(X), den |-> Det(X)]

\* the same matrix with a positive denominator
Normal(R) == IF R.den > 0 THEN R ELSE [num |-> Neg(R.num), den |-> -R.den]

\* floor of the smallest eigenvalue of the symmetric rational matrix num / den
RECURSIVE MinEigRatFrom(_, _)
MinEigRatFrom(R, t) == IF IsPSD(Shift(R.num, t * R.den)) THEN t ELSE MinEigRatFrom(R, t - 1)

MinEigRat(R) ==
    LET P == Normal(R)
    IN  MinEigRatFrom(P, MinOf(DiagOf(P.num), Len(P.num)) \div P.den)

\* ceiling of its largest eigenvalue
MaxEigRat(R) == -MinEigRat([num |-> Neg(R.num), den |-> R.den])

\* the square root on the grid (the inputs are chosen so that it is exact)
ISqrt(v) == CHOOSE r \in 0..v : r * r <= v /\ v < (r + 1) * (r + 1)

\* np.linalg.cholesky: the lower factor C with C C^T = Q, row by row
\* (Cholesky-Banachiewicz, reading the lower triangle of Q); LinAlgError at
\* the first pivot that is not positive
RECURSIVE CholEntry(_, _, _)
RECURSIVE CholSum(_, _, _, _)
CholSum(Q, i, j, k) ==
    IF k = 0 THEN 0 ELSE CholEntry(Q, i, k) * CholEntry(Q, j, k) + CholSum(Q, i, j, k - 1)

CholPivot(Q, j) == Q[j][j] - CholSum(Q, j, j, j - 1)

CholEntry(Q, i, j) ==
    IF i = j THEN ISqrt(CholPivot(Q, j))
    ELSE IF i > j THEN (Q[i][j] - CholSum(Q, i, j, j - 1)) \div CholEntry(Q, j, j)
    ELSE 0

RECURSIVE CholPivotsPositive(_, _)
CholPivotsPositive(Q, k) ==
    k = 0 \/ (CholPivotsPositive(Q, k - 1) /\ CholPivot(Q, k) > 0)

CholeskyRaises(Q) == ~CholPivotsPositive(Q, Len(Q))

Cholesky(Q) == [i \in 1..Len(Q) |-> [j \in 1..Len(Q) |-> CholEntry(Q, i, j)]]

\* np.sqrt, elementwise
Sqrt(v) == [i \in 1..Len(v) |-> IF v[i] < 0 THEN NaN ELSE ISqrt(v[i])]

HasNaN(X) == \E i \in 1..Len(X) : \E j \in 1..Len(X[1]) : X[i][j] = NaN

\* ------------------------------------------------------------------------
\* cvxpy: shapes of expressions (a ValueError is the shape ShapeError)
\* ------------------------------------------------------------------------
ShapeError == <<0, 0>>

\* the shape cvxpy gives a constant; an array that is not 2-D numeric is refused
ConstShape(X) == IF IsRect(X) THEN Shape(X) ELSE ShapeError

\* X @ Y: the inner dimensions must agree, no promotion of (1, 1)
MulShape(s, t) ==
    IF s = ShapeError \/ t = ShapeError \/ s[2] # t[1] THEN ShapeError ELSE <<s[1], t[2]>>

\* X + Y, X - Y: equal shapes, or one operand of size one that is promoted
SumShape(s, t) ==
    IF s = ShapeError \/ t = ShapeError THEN ShapeError
    ELSE IF s = t THEN s
    ELSE IF IsScalarLike(s) THEN t
    ELSE IF IsScalarLike(t) THEN s
    ELSE ShapeError

TShape(s) == IF s = ShapeError THEN ShapeError ELSE <<s[2], s[1]>>

\* cp.bmat([[P, Q], [R, S]]): hstack wants equal row counts, vstack equal widths
BmatShape(p, q, r, s) ==
    IF ShapeError \in {p, q, r, s} \/ p[1] # q[1] \/ r[1] # s[1] \/ p[2] + q[2] # r[2] + s[2]
    THEN ShapeError
    ELSE <<p[1] + r[1], p[2] + q[2]>>

\* X >> Y, X << Y: the difference must be a square matrix
PsdShapeOk(s, t) == LET d == SumShape(s, t) IN d # ShapeError /\ d[1] = d[2]

\* ------------------------------------------------------------------------
\* solve_lmi: the steps of the routine as functions of its arguments
\* a = [state_values, A, B, Q, alpha_min, alpha_max, n, lambda_val,
\*      use_d_constraint], the arguments of the call
\* ------------------------------------------------------------------------

\* L: the upper factor of Q, or diag(sqrt(diag(Q))) when the factorization fails
FellBack(Q) == CholeskyRaises(Q)

\* the lower factor kept as it is, the transpose forgotten
FactorOfLower(Q) ==
    IF CholeskyRaises(Q) THEN DiagMatrix(Sqrt(DiagOf(Q))) ELSE Cholesky(Q)

FactorOf(Q) ==
    IF CholeskyRaises(Q) THEN DiagMatrix(Sqrt(DiagOf(Q))) ELSE Transpose(Cholesky(Q))

\* BB_T = B @ B.T
FormBBT(B) == MatMul(B, Transpose(B))

WShape(a) == <<a.n, a.n>>

\* shape of H = A @ W + W @ A.T - rho * BB_T + 2 * lambda_val * W
HShape(a, BB_T) ==
    SumShape(SumShape(SumShape(MulShape(ConstShape(a.A), WShape(a)),
                               MulShape(WShape(a), TShape(ConstShape(a.A)))),
                      ConstShape(BB_T)),
             WShape(a))

\* shape of D = bmat([[-W @ A.T - A @ W + rho * BB_T, W @ L.T], [L @ W, I_n]])
DShape(a, L, BB_T) ==
    BmatShape(SumShape(SumShape(MulShape(WShape(a), TShape(ConstShape(a.A))),
                                MulShape(ConstShape(a.A), WShape(a))),
                       ConstShape(BB_T)),
              MulShape(WShape(a), TShape(ConstShape(L))),
              MulShape(ConstShape(L), WShape(a)),
              WShape(a))

\* building the mode's constraint raises ValueError on incompatible shapes
BuildRaises(a, L, BB_T) ==
    IF a.use_d_constraint
    THEN ~PsdShapeOk(DShape(a, L, BB_T), <<2 * a.n, 2 * a.n>>)
    ELSE ~PsdShapeOk(HShape(a, BB_T), WShape(a))

\* the decay rate leaking into the D constraint
CertificateConstraintWithLambda(a, L, BB_T) ==
    IF a.use_d_constraint
    THEN [kind |-> "D >> -eps*I", A |-> a.A, BB_T |-> BB_T, L |-> L,
          lambda_val |-> a.lambda_val, n |-> a.n]
    ELSE [kind |-> "H << -eps*I", A |-> a.A, BB_T |-> BB_T,
          lambda_val |-> a.lambda_val, n |-> a.n]

\* the mode-specific definiteness constraint handed to the solver
CertificateConstraint(a, L, BB_T) ==
    IF a.use_d_constraint
    THEN [kind |-> "D >> -eps*I", A |-> a.A, BB_T |-> BB_T, L |-> L, n |-> a.n]
    ELSE [kind |-> "H << -eps*I", A |-> a.A, BB_T |-> BB_T,
          lambda_val |-> a.lambda_val, n |-> a.n]

\* constraints: W >> alpha_min*I, W << alpha_max*I, rho >= 0, and the certificate
BuildConstraints(a, L, BB_T) ==
    << [kind |-> "W >> alpha_min*I", bound |-> a.alpha_min, n |-> a.n],
       [kind |-> "W << alpha_max*I", bound |-> a.alpha_max, n |-> a.n],
       [kind |-> "rho >= 0"],
       CertificateConstraint(a, L, BB_T) >>

\* the statuses on which the solution is read
IsSuccessStatus(st) == st \in {"optimal", "optimal_inaccurate"}

\* D_val and H_val, recomputed from the realized W and rho
DValue(a, L, BB_T, Wv, rv) ==
    Block(Add(Sub(MatMul(Neg(Wv), Transpose(a.A)), MatMul(a.A, Wv)), Scale(rv, BB_T)),
          MatMul(Wv, Transpose(L)),
          MatMul(L, Wv),
          Eye(a.n))

HValue(a, BB_T, Wv, rv) ==
    Add(Sub(Add(MatMul(a.A, Wv), MatMul(Wv, Transpose(a.A))), Scale(rv, BB_T)),
        Scale(2 * a.lambda_val, Wv))

\* np.linalg.eigvals refuses an array with NaN entries (LinAlgError)
VerifyRaises(a, L) == a.use_d_constraint /\ HasNaN(L)

\* the mode used by the verification step
VerifyMode(a) == a.use_d_constraint

\* extreme eigenvalues of the certificate, of W and of M, and the five checks
VerifySolution(a, L, BB_T, Wv, rv, Mv) ==
    LET useD == VerifyMode(a)
        C    == IF useD THEN DValue(a, L, BB_T, Wv, rv) ELSE HValue(a, BB_T, Wv, rv)
        minC == MinEig(C)
        maxC == MaxEig(C)
        minW == MinEig(Wv)
        maxW == MaxEig(Wv)
    IN  [mode      |-> useD,
         min_eig_C |-> minC,
         max_eig_C |-> maxC,
         min_eig_W |-> minW,
         max_eig_W |-> maxW,
         min_eig_M |-> MinEigRat(Mv),
         max_eig_M |-> MaxEigRat(Mv),
         cert_ok   |-> IF useD THEN minC >= 0 ELSE maxC <= 0,
         w_pd      |-> minW >= 0,
         w_lb      |-> minW >= a.alpha_min,
         w_ub      |-> maxW <= a.alpha_max,
         rho_pos   |-> rv >= 0]

\* the packaging step reading the flag the wrong way round
PackageModeSwapped(a) == ~a.use_d_constraint

\* the mode used by the packaging step
PackageMode(a) == a.use_d_constraint

\* the populated record without its verification report
SuccessResultNoReport(a, Wv, rv, Mv, r, solverName, st) ==
    [feasible  |-> TRUE, W |-> Wv, M |-> Some(Mv), rho |-> rv,
     min_eig_h |-> IF ~a.use_d_constraint THEN Some(r.min_eig_C) ELSE None,
     max_eig_h |-> IF ~a.use_d_constraint THEN Some(r.max_eig_C) ELSE None,
     min_eig_d |-> IF a.use_d_constraint THEN Some(r.min_eig_C) ELSE None,
     max_eig_d |-> IF a.use_d_constraint THEN Some(r.max_eig_C) ELSE None,
     min_eig_w |-> r.min_eig_W, max_eig_w |-> r.max_eig_W,
     min_eig_m |-> r.min_eig_M, max_eig_m |-> r.max_eig_M,
     solver_info |-> [solver_name |-> solverName, status |-> st, optimal_value |-> rv],
     constraints_violation |-> None]

\* the record returned after verification
SuccessResult(a, Wv, rv, Mv, r, solverName, st) ==
    LET useD == PackageMode(a)
    IN  [feasible  |-> TRUE,
         W         |-> Wv,
         M         |-> Some(Mv),
         rho       |-> rv,
         min_eig_h |-> IF ~useD THEN Some(r.min_eig_C) ELSE None,
         max_eig_h |-> IF ~useD THEN Some(r.max_eig_C) ELSE None,
         min_eig_d |-> IF useD THEN Some(r.min_eig_C) ELSE None,
         max_eig_d |-> IF useD THEN Some(r.max_eig_C) ELSE None,
         min_eig_w |-> r.min_eig_W,
         max_eig_w |-> r.max_eig_W,
         min_eig_m |-> r.min_eig_M,
         max_eig_m |-> r.max_eig_M,
         solver_info |-> [solver_name |-> solverName, status |-> st, optimal_value |-> rv],
         constraints_violation |-> Some(
             [H_negative_definite     |-> IF ~useD THEN Some(r.cert_ok) ELSE None,
              D_positive_semidefinite |-> IF useD THEN Some(r.cert_ok) ELSE None,
              W_positive_definite     |-> r.w_pd,
              W_lower_bound           |-> r.w_lb,
              W_upper_bound           |-> r.w_ub,
              rho_positive            |-> r.rho_pos])]

\* the record returned when the problem is infeasible or the solver failed
EmptyResult(info) ==
    [feasible  |-> FALSE,
     W         |-> None,
     M         |-> None,
     rho       |-> 0,
     min_eig_h |-> None,
     max_eig_h |-> None,
     min_eig_d |-> None,
     max_eig_d |-> None,
     min_eig_w |-> 0,
     max_eig_w |-> 0,
     min_eig_m |-> 0,
     max_eig_m |-> 0,
     solver_info |-> info,
     constraints_violation |-> None]

\* ------------------------------------------------------------------------
\* Inputs
\* ------------------------------------------------------------------------
StateValues == {[x1 |-> 0], [x1 |-> 1]}

\* matrix_a: 1x1, two 2x2, 1x2, and a ragged grid (pydantic accepts List[List[float]])
MatrixAValues ==
    { <<<<-1>>>>, <<<<-1, 0>>, <<0, -1>>>>, <<<<0, 1>>, <<-1, -1>>>>, <<<<-1, 0>>>>,
      <<<<-1, 0>>, <<0>>>> }

\* matrix_b: 1x1, 2x1, 1x2
MatrixBValues == { <<<<1>>>>, <<<<1>>, <<0>>>>, <<<<1, 0>>>> }

\* matrix_q: the diagonal of Q
MatrixQValues == { <<1>>, <<1, 1>>, <<1, 0>>, <<4, -1>> }

\* symmetric Q with off-diagonal entries, for direct calls of solve_lmi
DirectQValues ==
    { <<<<4, 2>>, <<2, 5>>>>, <<<<1, 2>>, <<2, 4>>>>, <<<<1, 2>>, <<2, 1>>>>, <<<<0, 1>>, <<1, 0>>>> }

DirectAValues == { <<<<0, 1>>, <<-1, -1>>>> }

AlphaPairs == { <<1, 3>>, <<0, 2>> }

LambdaValues == 0..MaxLambda

NValues == {1, 2}

Requests ==
    [state_values : StateValues, matrix_a : MatrixAValues, matrix_b : MatrixBValues,
     matrix_q : MatrixQValues, alpha : AlphaPairs, n : NValues,
     lambda_val : LambdaValues, use_d_constraint : BOOLEAN]

DirectCalls ==
    [state_values : StateValues, A : DirectAValues, B : {<<<<1>>, <<0>>>>},
     Q : DirectQValues, alpha_min : {1}, alpha_max : {3}, n : {2},
     lambda_val : LambdaValues, use_d_constraint : BOOLEAN]

\* what the solver may leave in W.value: symmetric n x n, not necessarily
\* definite, within bounds or regular
WValues(n) ==
    IF n = 1 THEN { <<<<2>>>>, <<<<0>>>>, <<<<5>>>> }
    ELSE { <<<<2, 0>>, <<0, 2>>>>, <<<<2, 1>>, <<1, 2>>>>, <<<<1, 1>>, <<1, 1>>>>,
           <<<<1, 2>>, <<2, 1>>>> }

RhoValues == -1..MaxRho

FailureStatuses == {"infeasible", "unbounded"}

Solvers == {"MOSEK", "SCS"}

\* ------------------------------------------------------------------------
\* State
\* ------------------------------------------------------------------------
VARIABLES
    pc,           \* position of the request in main.py / lmi_solver.py
    caller,       \* "endpoint" (HTTP request) or "direct" (call of solve_lmi)
    request,      \* the LMIRequest, None for a direct call
    args,         \* the arguments of solve_lmi, None before the call
    L,            \* factor of Q
    BB_T,         \* B @ B.T
    constraints,  \* the constraint list of the problem
    solver,       \* the chosen backend
    solves,       \* number of calls of prob.solve
    status,       \* prob.status
    W,            \* W.value of the cvxpy variable
    rho,          \* rho.value of the cvxpy variable
    W_val,        \* local W_val
    rho_val,      \* local rho_val
    M_val,        \* local M_val
    report,       \* eigenvalues and checks of the verification step
    exc,          \* the exception being handled: None or <<[type, at]>>
    result,       \* the value solve_lmi returns
    response      \* the HTTP response

vars == <<pc, caller, request, args, L, BB_T, constraints, solver, solves, status,
          W, rho, W_val, rho_val, M_val, report, exc, result, response>>

locals == <<L, BB_T, constraints, solver, solves, status, W, rho, W_val, rho_val,
            M_val, report>>

InitLocals ==
    /\ L = None /\ BB_T = None /\ constraints = None /\ solver = "" /\ solves = 0
    /\ status = "" /\ W = None /\ rho = None /\ W_val = None /\ rho_val = None
    /\ M_val = None /\ report = None /\ exc = None /\ result = None /\ response = None

InitEndpoint ==
    /\ caller = "endpoint"
    /\ request \in Requests
    /\ args = None
    /\ pc = "convert"
    /\ InitLocals

InitDirect ==
    /\ caller = "direct"
    /\ request = None
    /\ args \in DirectCalls
    /\ pc = "preprocess"
    /\ InitLocals

Init == InitEndpoint \/ InitDirect

Raised(type, at) == Some([type |-> type, at |-> at])

\* if prob.status in ["optimal", "optimal_inaccurate"]: ... else fall through
AfterSolve(st) == IF IsSuccessStatus(st) THEN "read" ELSE "return_empty"

\* handlers that retry the solver, pass the exception on, or re-raise it
InnerExceptRetries == "solve"

InnerExceptPassesOn == "return_error"

OuterExceptReraises == "http_except"

\* where the handlers of solve_lmi continue
InnerExcept == "return_empty"

OuterExcept == "return_error"

\* ------------------------------------------------------------------------
\* solve_lmi_endpoint
\* ------------------------------------------------------------------------

\* np.array(matrix_a), np.array(matrix_b), np.diag(matrix_q), then the call
Convert ==
    /\ pc = "convert"
    /\ args' = [state_values     |-> request.state_values,
                A                |-> request.matrix_a,
                B                |-> request.matrix_b,
                Q                |-> DiagMatrix(request.matrix_q),
                alpha_min        |-> request.alpha[1],
                alpha_max        |-> request.alpha[2],
                n                |-> request.n,
                lambda_val       |-> request.lambda_val,
                use_d_constraint |-> request.use_d_constraint]
    /\ pc' = "preprocess"
    /\ UNCHANGED <<caller, request, locals, exc, result, response>>

\* np.array refuses a ragged grid (numpy >= 1.24; older builds make an object
\* array and Convert applies)
ConvertRaises ==
    /\ pc = "convert"
    /\ ~IsRect(request.matrix_a)
    /\ exc' = Raised("ValueError", "convert")
    /\ pc' = "http_except"
    /\ UNCHANGED <<caller, request, args, locals, result, response>>

\* return result
Respond ==
    /\ pc = "returned"
    /\ caller = "endpoint"
    /\ response' = Some([status_code |-> 200, body |-> result])
    /\ pc' = "done"
    /\ UNCHANGED <<caller, request, args, locals, exc, result>>

\* except Exception as e: raise HTTPException(status_code=500, detail=str(e))
RaiseHTTPException ==
    /\ pc = "http_except"
    /\ response' = Some([status_code |-> 500, detail |-> exc[1].type])
    /\ pc' = "done"
    /\ UNCHANGED <<caller, request, args, locals, exc, result>>

\* ------------------------------------------------------------------------
\* solve_lmi
\* ------------------------------------------------------------------------

\* variables, identity, Cholesky factor (or the diagonal fallback), BB^T
Preprocess ==
    /\ pc = "preprocess"
    /\ L' = FactorOf(args.Q)
    /\ BB_T' = FormBBT(args.B)
    /\ pc' = "build"
    /\ UNCHANGED <<caller, request, args, constraints, solver, solves, status, W, rho,
                   W_val, rho_val, M_val, report, exc, result, response>>

\* the constraint list and the problem; a shape error is a ValueError that the
\* outer handler receives
Build ==
    /\ pc = "build"
    /\ IF BuildRaises(args, L, BB_T)
       THEN /\ exc' = Raised("ValueError", "build")
            /\ pc' = OuterExcept
            /\ UNCHANGED constraints
       ELSE /\ constraints' = BuildConstraints(args, L, BB_T)
            /\ pc' = "select"
            /\ UNCHANGED exc
    /\ UNCHANGED <<caller, request, args, L, BB_T, solver, solves, status, W, rho,
                   W_val, rho_val, M_val, report, result, response>>

\* MOSEK if installed, else SCS
SelectSolver ==
    /\ pc = "select"
    /\ solver' \in Solvers
    /\ pc' = "solve"
    /\ UNCHANGED <<caller, request, args, L, BB_T, constraints, solves, status, W, rho,
                   W_val, rho_val, M_val, report, exc, result, response>>

\* prob.solve returns with a success status and values for W and rho
SolveOptimal ==
    /\ pc = "solve"
    /\ solves' = solves + 1
    /\ status' \in {"optimal", "optimal_inaccurate"}
    /\ W' \in WValues(args.n)
    /\ rho' \in {Some(r) : r \in RhoValues}
    /\ pc' = AfterSolve(status')
    /\ UNCHANGED <<caller, request, args, L, BB_T, constraints, solver,
                   W_val, rho_val, M_val, report, exc, result, response>>

\* prob.solve returns with a failure status and no values
SolveFails ==
    /\ pc = "solve"
    /\ solves' = solves + 1
    /\ status' \in FailureStatuses
    /\ pc' = AfterSolve(status')
    /\ UNCHANGED <<caller, request, args, L, BB_T, constraints, solver, W, rho,
                   W_val, rho_val, M_val, report, exc, result, response>>

\* prob.solve raises (SolverError, ...): the inner handler prints and falls through
SolveRaises ==
    /\ pc = "solve"
    /\ solves' = solves + 1
    /\ exc' = Raised("SolverError", "solve")
    /\ pc' = InnerExcept
    /\ UNCHANGED <<caller, request, args, L, BB_T, constraints, solver, status, W, rho,
                   W_val, rho_val, M_val, report, result, response>>

\* W_val = W.value, rho_val = float(rho.value), M_val = np.linalg.inv(W_val)
ReadSolution ==
    /\ pc = "read"
    /\ W_val' = W
    /\ rho_val' = rho
    /\ IF IsSingular(W)
       THEN /\ exc' = Raised("LinAlgError", "inv")
            /\ pc' = InnerExcept
            /\ UNCHANGED M_val
       ELSE /\ M_val' = Some(Inv(W))
            /\ pc' = "verify"
            /\ UNCHANGED exc
    /\ UNCHANGED <<caller, request, args, L, BB_T, constraints, solver, solves, status,
                   W, rho, report, result, response>>

\* recompute the certificate, the eigenvalues and the five checks
Verify ==
    /\ pc = "verify"
    /\ IF VerifyRaises(args, L)
       THEN /\ exc' = Raised("LinAlgError", "eigvals")
            /\ pc' = InnerExcept
            /\ UNCHANGED report
       ELSE /\ report' = Some(VerifySolution(args, L, BB_T, W_val, rho_val[1], M_val[1]))
            /\ pc' = "package"
            /\ UNCHANGED exc
    /\ UNCHANGED <<caller, request, args, L, BB_T, constraints, solver, solves, status,
                   W, rho, W_val, rho_val, M_val, result, response>>

\* return the populated record
Package ==
    /\ pc = "package"
    /\ result' = Some(SuccessResult(args, W_val, rho_val[1], M_val[1], report[1], solver, status))
    /\ pc' = "returned"
    /\ UNCHANGED <<caller, request, args, locals, exc, response>>

\* "Problem infeasible or solver failed": the empty record, status "error"
ReturnEmpty ==
    /\ pc = "return_empty"
    /\ result' = Some(EmptyResult([status |-> "error"]))
    /\ pc' = "returned"
    /\ UNCHANGED <<caller, request, args, locals, exc, response>>

\* outer handler: the empty record with the error text
ReturnError ==
    /\ pc = "return_error"
    /\ result' = Some(EmptyResult([error |-> exc[1].type]))
    /\ pc' = "returned"
    /\ UNCHANGED <<caller, request, args, locals, exc, response>>

Next ==
    \/ Convert
    \/ ConvertRaises
    \/ Preprocess
    \/ Build
    \/ SelectSolver
    \/ SolveOptimal
    \/ SolveFails
    \/ SolveRaises
    \/ ReadSolution
    \/ Verify
    \/ Package
    \/ ReturnEmpty
    \/ ReturnError
    \/ Respond
    \/ RaiseHTTPException

Spec == Init /\ [][Next]_vars

\* ------------------------------------------------------------------------
\* Properties
\* ------------------------------------------------------------------------
\* every condition of the verification report is true
AllChecksPass(r) == r.cert_ok /\ r.w_pd /\ r.w_lb /\ r.w_ub /\ r.rho_pos

\* Sylvester: a symmetric matrix is positive definite iff every leading
\* principal minor is positive (equivalently: it has no eigenvalue <= 0)
IsPD(X) == \A k \in 1..Len(X) : Det(SubMatrix(X, [i \in 1..k |-> i])) > 0

HasNonPositiveEigenvalue(X) == ~IsPD(X)

Called == args # None

HasResult == result # None

ExcAt(w) == exc # None /\ exc[1].at = w

\* the two shapes of a returned record
IsEmptyShape(r) ==
    /\ r.feasible = FALSE
    /\ r.W = None /\ r.M = None /\ r.rho = 0
    /\ r.min_eig_h = None /\ r.max_eig_h = None
    /\ r.min_eig_d = None /\ r.max_eig_d = None
    /\ r.min_eig_w = 0 /\ r.max_eig_w = 0 /\ r.min_eig_m = 0 /\ r.max_eig_m = 0
    /\ r.constraints_violation = None

IsSuccessShape(r) ==
    /\ r.feasible = TRUE
    /\ r.W # None /\ r.W = W_val
    /\ r.M # None /\ r.M = M_val
    /\ r.rho = rho_val[1]
    /\ r.min_eig_w = report[1].min_eig_W /\ r.max_eig_w = report[1].max_eig_W
    /\ r.min_eig_m = report[1].min_eig_M /\ r.max_eig_m = report[1].max_eig_M
    /\ DOMAIN r.solver_info = {"solver_name", "status", "optimal_value"}
    /\ r.solver_info.solver_name = solver /\ r.solver_info.status = status
    /\ r.constraints_violation # None

\* A is not n x n, or B has not n rows
DimensionMismatch(a) ==
    \/ ~IsRect(a.A)
    \/ Shape(a.A) # <<a.n, a.n>>
    \/ Len(a.B) # a.n

\* C1: when the verification step has run and one of its conditions is false,
\* the returned record is the empty one (feasible = FALSE, W and M null); a
\* record with feasible = TRUE is returned only if every condition holds.
C1_VerificationFailureGivesEmpty ==
    (HasResult /\ report # None) =>
        /\ ~AllChecksPass(report[1]) =>
              (result[1].feasible = FALSE /\ result[1].W = None /\ result[1].M = None)
        /\ result[1].feasible => AllChecksPass(report[1])

\* C2: every returned record is either the populated success record or the
\* empty record, never a mixture; and every call of solve_lmi returns one.
C2_TwoShapes ==
    /\ HasResult =>
          /\ IsSuccessShape(result[1]) \/ IsEmptyShape(result[1])
          /\ ~(result[1].feasible = FALSE /\ (result[1].W # None \/ result[1].M # None))
          /\ ~(result[1].feasible = TRUE /\
                 (result[1].W = None \/ result[1].M = None
                    \/ result[1].constraints_violation = None))
    /\ (Called /\ pc = "done") => (HasResult /\ response[1].status_code = 200)

C2_EmptyAfterReadingW ==
    pc = "returned" /\ W_val # None /\ IsEmptyShape(result[1])

\* C3: a success record carries the certificate data of the requested mode
\* only (H fields when use_d_constraint is false, D fields when true), no
\* record carries both, and constraint, verification and packaging use one mode.
C3_OneCertificatePerMode ==
    HasResult =>
        LET r == result[1]
            d == args.use_d_constraint
        IN  /\ ~(r.min_eig_h # None /\ r.min_eig_d # None)
            /\ ~(r.max_eig_h # None /\ r.max_eig_d # None)
            /\ r.feasible =>
                 /\ (r.min_eig_h # None) = ~d /\ (r.max_eig_h # None) = ~d
                 /\ (r.min_eig_d # None) = d /\ (r.max_eig_d # None) = d
                 /\ (r.constraints_violation[1].H_negative_definite # None) = ~d
                 /\ (r.constraints_violation[1].D_positive_semidefinite # None) = d
                 /\ constraints[4].kind = (IF d THEN "D >> -eps*I" ELSE "H << -eps*I")
                 /\ report[1].mode = d
                 /\ (IF d THEN r.min_eig_d ELSE r.min_eig_h) = Some(report[1].min_eig_C)
                 /\ (IF d THEN r.max_eig_d ELSE r.max_eig_h) = Some(report[1].max_eig_C)

C3_DModeSuccess ==
    HasResult /\ result[1].feasible /\ args.use_d_constraint /\ result[1].min_eig_d # None

\* C4: on status infeasible or unbounded, or optimal_inaccurate with a solution
\* that fails a verification condition, solve_lmi returns feasible = FALSE and
\* nothing further is computed (W and rho not read, M, eigenvalues and checks
\* not computed); W and rho are read only on optimal or optimal_inaccurate.
C4_FailureStatusStopsComputation ==
    /\ (HasResult /\
          (\/ status \in FailureStatuses
           \/ (status = "optimal_inaccurate" /\ ~IsSingular(W) /\ ~VerifyRaises(args, L)
                 /\ ~AllChecksPass(VerifySolution(args, L, BB_T, W, rho[1], Inv(W))))))
         => (result[1].feasible = FALSE /\ W_val = None /\ rho_val = None
               /\ M_val = None /\ report = None)
    /\ (W_val # None \/ rho_val # None) => IsSuccessStatus(status)

\* C5: prob.solve is called at most once per call of solve_lmi; if it raises,
\* the exception is handled inside solve_lmi, the solver is not called again,
\* and the empty record with solver_info = {status: error} is returned.
C5_SingleSolverAttempt ==
    /\ solves <= 1
    /\ ExcAt("solve") =>
          /\ solves = 1
          /\ pc \in {"return_empty", "returned", "done"}
          /\ status = "" /\ W_val = None
          /\ HasResult => result[1] = EmptyResult([status |-> "error"])
          /\ response # None => response[1] = [status_code |-> 200, body |-> result]

C5_SolverRaisedAndReturned ==
    ExcAt("solve") /\ pc = "returned" /\ result[1].solver_info = [status |-> "error"]

\* C6: when the solver reports success but W is singular, so that inverting it
\* raises, solve_lmi neither raises nor returns a success record: it returns
\* the empty record, and no eigenvalue or verification step runs.
C6_SingularWGivesEmpty ==
    ExcAt("inv") =>
        /\ IsSuccessStatus(status) /\ IsSingular(W_val)
        /\ pc \in {"return_empty", "returned", "done"}
        /\ M_val = None /\ report = None
        /\ HasResult => result[1] = EmptyResult([status |-> "error"])
        /\ response # None => response[1] = [status_code |-> 200, body |-> result]

C6_SingularWReturned ==
    ExcAt("inv") /\ pc = "returned" /\ IsEmptyShape(result[1]) /\ status = "optimal"

\* C7: a request whose A is not n x n or whose B has not n rows gets an error
\* record (feasible = FALSE with error information); no problem is handed to
\* the solver and feasible = TRUE is never returned for it.
C7_DimensionMismatchIsError ==
    (Called /\ DimensionMismatch(args)) =>
        /\ solves = 0
        /\ HasResult => (result[1].feasible = FALSE
                          /\ "error" \in DOMAIN result[1].solver_info)

\* C8 as stated: an error raised while preprocessing or building is not turned
\* into a record; it leaves solve_lmi and the endpoint answers HTTP 500.
C8_BuildErrorPropagates ==
    ExcAt("build") =>
        /\ result = None
        /\ response # None => response[1].status_code = 500

\* C8 as amended: an error raised while building the problem is caught by the
\* outer handler of solve_lmi and returned as the empty record whose
\* solver_info carries the error text; the endpoint answers 200 with that
\* record, and answers 500 only for an exception raised in its own code.
C8_BuildErrorIsNormalized ==
    /\ ExcAt("build") =>
          /\ pc \in {"return_error", "returned", "done"}
          /\ solves = 0
          /\ HasResult => result[1] = EmptyResult([error |-> exc[1].type])
          /\ response # None => response[1] = [status_code |-> 200, body |-> result]
    /\ (response # None /\ response[1].status_code = 500) =>
          (ExcAt("convert") /\ ~Called /\ result = None)

C8_BuildErrorAnswered ==
    ExcAt("build") /\ pc = "done" /\ response[1].status_code = 200
        /\ IsEmptyShape(response[1].body[1])

\* the call with other state_values and another lambda_val
Alt(a, sv, lam) == [a EXCEPT !.state_values = sv, !.lambda_val = lam]

\* C9: two calls that agree on A, B, Q, alpha_min, alpha_max, n and
\* use_d_constraint and differ in state_values (and, in D mode, in lambda_val)
\* hand the same constraints to the solver and, for the same solver answer,
\* return the same record; in H mode another lambda_val changes the problem.
\* Each step is compared in the state it leaves behind.
C9_UnusedInputsDoNotInterfere ==
    (Called /\ L # None) =>
        \A sv \in StateValues : \A lam \in LambdaValues :
            LET b == Alt(args, sv, lam) IN
            IF args.use_d_constraint \/ lam = args.lambda_val
            THEN /\ pc = "build" => BuildRaises(b, L, BB_T) = BuildRaises(args, L, BB_T)
                 /\ pc = "select" => constraints = BuildConstraints(b, L, BB_T)
                 /\ pc = "verify" => VerifyRaises(b, L) = VerifyRaises(args, L)
                 /\ pc = "package" =>
                      report[1] = VerifySolution(b, L, BB_T, W_val, rho_val[1], M_val[1])
                 /\ (pc = "returned" /\ result[1].feasible) =>
                      result[1] = SuccessResult(b, W_val, rho_val[1], M_val[1],
                                                report[1], solver, status)
            ELSE pc = "select" => constraints # BuildConstraints(b, L, BB_T)

C9_DModeReturned ==
    HasResult /\ result[1].feasible /\ args.use_d_constraint /\ args.lambda_val = 1
        /\ args.state_values = [x1 |-> 1]

IsUpperTriangular(X) == \A i, j \in 1..Len(X) : i > j => X[i][j] = 0

====
